---- MODULE Spec2Model ----
(***************************************************************************)
(* Model of src/main.py: BookScraper, a concurrent scraper that fans six   *)
(* fetch+extract coroutines out under one asyncio.Semaphore, flattens      *)
(* their results, and groups the collected books by title for a price      *)
(* comparison.                                                             *)
(*                                                                         *)
(* The specifications share the variables:                                 *)
(*   Spec / FairSpec  one harvest run (run_all_scrapers and its tasks);    *)
(*   SpecExtract      one extractor applied to one fetched document;       *)
(*   SpecFetch        one fetch_page call against one transport outcome;   *)
(*   SpecAgg          get_price_comparison called on a returned collection.*)
(***************************************************************************)
EXTENDS Integers, Sequences, FiniteSets, TLC

VARIABLES
    capacity,       \* self.max_concurrent_requests
    permits,        \* self.semaphore: the permits not held
    orch,           \* run_all_scrapers: "idle", "gathering", "returned"
    pc,             \* per task: where its coroutine stands
    content,        \* per task: the content its fetch_page call has in hand
    outcome,        \* per task: what it handed to gather
    results,        \* self.results
    all_books,      \* the list run_all_scrapers returned
    fetchLines,     \* per task: "Fetching: ..." lines logged
    errorLines,     \* per task: logger.error lines of fetch_page
    taskErrorLines, \* "Task failed with error" lines of run_all_scrapers
    overtaken,      \* history: a task finished before one declared ahead of it
    comparison,     \* the dict the last get_price_comparison call returned
    prevComparison, \* the dict the call before it returned
    calls,          \* get_price_comparison calls since the run returned
    csvfile,        \* books_data.csv, as save_to_csv left it
    jsonfile,       \* books_data.json, as save_to_json left it
    sources,        \* main: the dict of books per source
    unit            \* SpecExtract, SpecFetch: the call under study

vars == <<capacity, permits, orch, pc, content, outcome, results, all_books,
          fetchLines, errorLines, taskErrorLines, overtaken, comparison, prevComparison,
          calls, csvfile, jsonfile, sources, unit>>

runVars == <<capacity, permits, orch, pc, content, outcome, results, all_books,
             fetchLines, errorLines, taskErrorLines, overtaken>>

exportVars == <<csvfile, jsonfile, sources>>

aggVars == <<comparison, prevComparison, calls, exportVars>>

(***************************************************************************)
(* Bounds of the model.                                                    *)
(***************************************************************************)
\* max_concurrent_requests ranges over 1..MaxPermits
MaxPermits == 2
\* item blocks / documents / list entries per fetched document
MaxItems == 2
\* calls of get_price_comparison after one run
MaxCalls == 3

(***************************************************************************)
(* Program constants.                                                      *)
(***************************************************************************)
\* response.status == 200
HttpOk == 200
\* data.get('docs', [])[:20] and ol_elem.find_all('li')[:20]
DocsLimit == 20
TopLimit == 20

\* The task list of run_all_scrapers, in declaration order.
TaskKinds == <<"catalog", "catalog", "catalog", "search", "search", "ranked">>
Tasks == 1..Len(TaskKinds)

SourceOf(kind) ==
    CASE kind = "catalog" -> "books.toscrape.com"
      [] kind = "search" -> "openlibrary.org"
      [] kind = "ranked" -> "gutenberg.org"

(***************************************************************************)
(* Values.                                                                 *)
(***************************************************************************)
\* Optional[float]: None, or a number (prices are modelled in whole units).
NoPrice == [some |-> FALSE, val |-> 0]
Price(n) == [some |-> TRUE, val |-> n]

\* A file save_to_csv or save_to_json has not written.
NoFile == [written |-> FALSE, warned |-> FALSE, rows |-> <<>>]

\* Optional[float] rating: None, or a number.
NoRating == [some |-> FALSE, val |-> 0]
Rating(n) == [some |-> TRUE, val |-> n]

\* dataclass Book, the fields the aggregation reads and the rating.
RatedBook(title, price, source, rating) ==
    [title |-> title, price |-> price, source |-> source, rating |-> rating]

\* A book built without a rating: the field keeps its default, None.
Book(title, price, source) == RatedBook(title, price, source, NoRating)

\* Titles that differ only in case, and one that differs altogether.
Titles == {"Dune", "dune", "Emma"}

\* The text of a price element, as a sequence of characters.  "GBP" is the
\* pound sign and "A^" the mis-encoded remnant that precedes it.
PriceTexts ==
    { <<"GBP", "1">>, <<"GBP", "2">>, <<"A^", "GBP", "2">>, <<"GBP", "0">>,
      <<"-", "1">>, <<"GBP", "x">>, <<>> }

\* price_elem is None: price_text = '0'
AbsentPriceText == <<"0">>

\* One item of a fetched document: an <article> of a catalogue page, a doc
\* of a search result, an <li> of the ranked list.
\*   elem = "ok"      the element has the expected shape
\*   elem = "broken"  reading it raises (no <h3>/<a> in the article, a doc
\*                    that is no mapping, an href urljoin rejects)
\*   elem = "nolink"  ranked list only: the <li> holds no <a>
\*   price_text       catalogue only: the text of p.price_color, or
\*                    "absent" <<"none">> when the element is missing
\*   stars            catalogue only: the class list of p.star-rating, or
\*                    the empty list when the article holds no such element
\*   ratings_average  search result only: the value of the doc's
\*                    'ratings_average' key, None when the doc has none
Article(title, elem, price_text, stars) ==
    [title |-> title, elem |-> elem, price_text |-> price_text,
     stars |-> stars, ratings_average |-> NoRating]

NoRatingElem == <<>>

\* A doc of a search result with its 'ratings_average'.
Doc(title, elem, ratings_average) ==
    [title |-> title, elem |-> elem, price_text |-> <<"none">>,
     stars |-> NoRatingElem, ratings_average |-> ratings_average]

\* An item without a star-rating element.
Item(title, elem, price_text) == Article(title, elem, price_text, NoRatingElem)

NoPriceElem == <<"none">>

\* Class lists of a p.star-rating element: the five labels of the site (three
\* of them), a label the table does not hold, and an element with no label.
StarClasses ==
    { <<"star-rating", "One">>, <<"star-rating", "Three">>,
      <<"star-rating", "Five">>, <<"star-rating", "Zero">>,
      <<"star-rating">> }

\* The fetched content.  doc = "none" is Python's None, "empty" the empty
\* string, "unparseable" a text the parser (BeautifulSoup, json.loads)
\* raises on, "ok" a document holding items.
None == [doc |-> "none", items |-> <<>>]
Document(doc, items) == [doc |-> doc, items |-> items]

(***************************************************************************)
(* Helpers.                                                                *)
(***************************************************************************)
Min(a, b) == IF a <= b THEN a ELSE b

\* seq[:n]
Take(seq, n) == SubSeq(seq, 1, Min(n, Len(seq)))

\* All sequences over S of length at most n.
SeqUpTo(S, n) == UNION { [1..k -> S] : k \in 0..n }

(***************************************************************************)
(* scrape_books_toscrape: the price of one article.                        *)
(***************************************************************************)
\* price_text.replace(pound, '').replace(remnant, '')
StripCurrency(text) == SelectSeq(text, LAMBDA c : c \notin {"GBP", "A^"})

Digits == {"0", "1", "2"}

DigitValue(c) == CASE c = "0" -> 0 [] c = "1" -> 1 [] c = "2" -> 2

AllDigits(s) == \A i \in 1..Len(s) : s[i] \in Digits

RECURSIVE DecValue(_)
DecValue(s) ==
    IF s = <<>> THEN 0
    ELSE 10 * DecValue(SubSeq(s, 1, Len(s) - 1)) + DigitValue(s[Len(s)])

\* float(s) succeeds: an optional sign and at least one digit.
FloatOk(s) ==
    \/ s # <<>> /\ AllDigits(s)
    \/ Len(s) >= 2 /\ s[1] = "-" /\ AllDigits(Tail(s))

\* float(s), where it succeeds.
FloatValue(s) == IF s[1] = "-" THEN 0 - DecValue(Tail(s)) ELSE DecValue(s)

\* price_text = price_elem.text if price_elem else '0'
PriceTextOf(item) ==
    IF item.price_text = NoPriceElem THEN AbsentPriceText ELSE item.price_text

(***************************************************************************)
(* The three extractors, from the parsed document on.                      *)
(***************************************************************************)
\* The body of the per-article try block raises.
\* rating_map = {'One': 1, 'Two': 2, 'Three': 3, 'Four': 4, 'Five': 5}
rating_map == [One |-> 1, Two |-> 2, Three |-> 3, Four |-> 4, Five |-> 5]

\* rating_map.get(label, 0)
RatingMapGet(label) ==
    IF label \in DOMAIN rating_map THEN rating_map[label] ELSE 0

\* rating_elem.get('class')[1] raises IndexError on a one-class list
RatingRaises(item) ==
    item.stars # NoRatingElem /\ Len(item.stars) < 2

\* rating_map.get(rating_elem.get('class')[1], 0) if rating_elem else None
CatalogRating(item) ==
    IF item.stars = NoRatingElem THEN NoRating
    ELSE Rating(RatingMapGet(item.stars[2]))

CatalogItemRaises(item) ==
    \/ item.elem = "broken"
    \/ ~FloatOk(StripCurrency(PriceTextOf(item)))
    \/ RatingRaises(item)

CatalogBook(item) ==
    RatedBook(item.title, Price(FloatValue(StripCurrency(PriceTextOf(item)))),
              SourceOf("catalog"), CatalogRating(item))

\* for article in soup.find_all(...): try: ... books.append(book)
\*                                    except Exception: continue
RECURSIVE CatalogBooks(_)
CatalogBooks(items) ==
    IF items = <<>> THEN <<>>
    ELSE IF CatalogItemRaises(Head(items)) THEN CatalogBooks(Tail(items))
    ELSE <<CatalogBook(Head(items))>> \o CatalogBooks(Tail(items))

SearchItemRaises(item) == item.elem = "broken"

\* price=None, rating=doc.get('ratings_average')
SearchBook(item) ==
    RatedBook(item.title, NoPrice, SourceOf("search"), item.ratings_average)

\* try: for doc in docs: ... books.append(book)
\* except Exception: (log)          -- one try around the whole loop
RECURSIVE SearchLoop(_)
SearchLoop(items) ==
    IF items = <<>> THEN <<>>
    ELSE IF SearchItemRaises(Head(items)) THEN <<>>
    ELSE <<SearchBook(Head(items))>> \o SearchLoop(Tail(items))

SearchBooks(items) == SearchLoop(Take(items, DocsLimit))

RankedItemRaises(item) == item.elem = "broken"

RankedBook(item) == Book(item.title, Price(0), SourceOf("ranked"))

\* for li in ...: try: link = li.find('a'); if link: ... books.append(book)
\*                except Exception: continue
RECURSIVE RankedLoop(_)
RankedLoop(items) ==
    IF items = <<>> THEN <<>>
    ELSE IF RankedItemRaises(Head(items)) \/ Head(items).elem = "nolink"
         THEN RankedLoop(Tail(items))
    ELSE <<RankedBook(Head(items))>> \o RankedLoop(Tail(items))

RankedBooks(items) == RankedLoop(Take(items, TopLimit))

\* What a task hands to gather: a list of books, or an exception.
Returned(books) == [exc |-> FALSE, books |-> books]
Raised == [exc |-> TRUE, books |-> <<>>]

\* Only the empty string counts as no content.
NoContentEmptyOnly(html) == html.doc = "empty"

\* if not html: return books
NoContent(html) == html.doc \in {"none", "empty"}

\* BeautifulSoup(html, 'html.parser') / json.loads(html) raises: on a text
\* the parser rejects, and on None (a TypeError)
ParserRaises(html) == html.doc \in {"unparseable", "none"}

\* The number of items of a list whose processing raises in the loop of the
\* scraper of that kind.
RECURSIVE CountRaising(_, _)
CountRaising(kind, items) ==
    IF items = <<>> THEN 0
    ELSE (IF CASE kind = "catalog" -> CatalogItemRaises(Head(items))
               [] kind = "search" -> SearchItemRaises(Head(items))
               [] kind = "ranked" -> RankedItemRaises(Head(items))
          THEN 1 ELSE 0) + CountRaising(kind, Tail(items))

\* The logger.error lines a scraper writes while it extracts: one per item
\* that raises in the catalogue and ranked-list loops, one for the whole
\* try of the search scraper.
ParseErrorLines(kind, html) ==
    IF NoContent(html) THEN 0
    ELSE CASE kind = "catalog" ->
                IF ParserRaises(html) THEN 0
                ELSE CountRaising(kind, html.items)
           [] kind = "search" ->
                IF ParserRaises(html) THEN 1
                ELSE IF CountRaising(kind, Take(html.items, DocsLimit)) > 0
                     THEN 1 ELSE 0
           [] kind = "ranked" ->
                IF ParserRaises(html) THEN 0
                ELSE CountRaising(kind, Take(html.items, TopLimit))

\* scrape_books_toscrape, after fetch_page returned html
ScrapeCatalog(html) ==
    IF NoContent(html) THEN Returned(<<>>)
    ELSE IF ParserRaises(html) THEN Raised
    ELSE Returned(CatalogBooks(html.items))

\* scrape_openlibrary_search, after fetch_page returned html
ScrapeSearch(html) ==
    IF NoContent(html) THEN Returned(<<>>)
    ELSE IF ParserRaises(html) THEN Returned(<<>>)
    ELSE Returned(SearchBooks(html.items))

\* scrape_gutenberg_top, after fetch_page returned html
ScrapeRanked(html) ==
    IF NoContent(html) THEN Returned(<<>>)
    ELSE IF ParserRaises(html) THEN Raised
    ELSE Returned(RankedBooks(html.items))

Scrape(kind, html) ==
    CASE kind = "catalog" -> ScrapeCatalog(html)
      [] kind = "search" -> ScrapeSearch(html)
      [] kind = "ranked" -> ScrapeRanked(html)

(***************************************************************************)
(* The transport: what session.get and response.text() can do.             *)
(***************************************************************************)
Statuses == {200, 201, 204, 404, 500}

\* if response.status == 200
StatusOk(status) == status = HttpOk

\* The documents a run receives, per kind of task.
RunBodies(kind) ==
    CASE kind = "catalog" ->
           { Document("ok", << Article("Dune", "ok", <<"GBP", "2">>,
                                       <<"star-rating", "Three">>),
                               Item("Emma", "ok", <<"GBP", "x">>),
                               Item("Dune", "ok", <<"GBP", "1">>) >>),
             Document("ok", << Item("Emma", "ok", <<"GBP", "1">>) >>),
             Document("unparseable", <<>>) }
      [] kind = "search" ->
           { Document("ok", << Doc("Dune", "ok", Rating(4)),
                               Item("dune", "ok", NoPriceElem) >>),
             Document("ok", << Item("Emma", "broken", NoPriceElem),
                               Item("Emma", "ok", NoPriceElem) >>) }
      [] kind = "ranked" ->
           { Document("ok", << Item("Dune", "ok", NoPriceElem),
                               Item("Emma", "nolink", NoPriceElem),
                               Item("dune", "ok", NoPriceElem) >>),
             Document("unparseable", <<>>) }

(***************************************************************************)
(* asyncio.Semaphore and asyncio.gather, as the code uses them.            *)
(***************************************************************************)
\* asyncio.Semaphore(max_concurrent_requests)
SemaphoreValue(c) == c

\* A semaphore that never blocks.
CanAcquireAlways(p) == TRUE

\* async with self.semaphore: entry blocks while no permit is left
CanAcquire(p) == p > 0

\* The permit is released by hand and once more by the with block.
ReleaseTwice(p) == p + 2

\* async with self.semaphore: exit, on the path that returns the content
ReleaseAfterDelay(p) == p + 1

\* The permit is released on the success path only.
ReleaseForgotten(p) == p

\* async with self.semaphore: exit, on the paths that return None
ReleaseOnFailure(p) == p + 1

Terminal == {"done", "raised"}

\* The await resumes as soon as one task is over.
GatherFirstCompleted == \E t \in Tasks : pc[t] \in Terminal

\* await asyncio.gather(*tasks, return_exceptions=True) resumes
GatherDone == \A t \in Tasks : pc[t] \in Terminal

\* The records of a task are added last first.
RECURSIVE Backwards(_)
Backwards(s) == IF s = <<>> THEN <<>> ELSE Backwards(Tail(s)) \o <<Head(s)>>

ContributionBackwards(result) ==
    IF result.exc THEN <<>> ELSE Backwards(result.books)

\* isinstance(result, Exception): log; isinstance(result, list): extend
Contribution(result) == IF result.exc THEN <<>> ELSE result.books

\* The flattening loop gives up at the first exception.
RECURSIVE FlattenUntilException(_)
FlattenUntilException(rs) ==
    IF rs = <<>> \/ Head(rs).exc THEN <<>>
    ELSE Head(rs).books \o FlattenUntilException(Tail(rs))

\* The lists are joined last task first.
RECURSIVE FlattenReversed(_)
FlattenReversed(rs) ==
    IF rs = <<>> THEN <<>>
    ELSE FlattenReversed(Tail(rs)) \o Contribution(Head(rs))

\* for result in results: ...
RECURSIVE Flatten(_)
Flatten(rs) ==
    IF rs = <<>> THEN <<>> ELSE Contribution(Head(rs)) \o Flatten(Tail(rs))

Holding == {"get", "text", "sleep"}

(***************************************************************************)
(* One harvest run.                                                        *)
(***************************************************************************)
Init ==
    /\ capacity \in 1..MaxPermits
    /\ permits = SemaphoreValue(capacity)
    /\ orch = "idle"
    /\ pc = [t \in Tasks |-> "created"]
    /\ content = [t \in Tasks |-> None]
    /\ outcome = [t \in Tasks |-> Returned(<<>>)]
    /\ results = <<>>
    /\ all_books = <<>>
    /\ fetchLines = [t \in Tasks |-> 0]
    /\ errorLines = [t \in Tasks |-> 0]
    /\ taskErrorLines = 0
    /\ overtaken = FALSE
    /\ comparison = <<>>
    /\ prevComparison = <<>>
    /\ calls = 0
    /\ csvfile = NoFile
    /\ jsonfile = NoFile
    /\ sources = <<>>
    /\ unit = [spec |-> "run"]

\* run_all_scrapers, up to the await: the six coroutines are handed to gather
Dispatch ==
    /\ orch = "idle"
    /\ orch' = "gathering"
    /\ pc' = [t \in Tasks |-> "start"]
    /\ UNCHANGED <<capacity, permits, content, outcome, results, all_books,
                   fetchLines, errorLines, taskErrorLines, aggVars, overtaken, unit>>

\* fetch_page: the semaphore is entered, the attempt is logged, session.get
\* is awaited
Acquire(t) ==
    /\ pc[t] = "start"
    /\ CanAcquire(permits)
    /\ permits' = permits - 1
    /\ fetchLines' = [fetchLines EXCEPT ![t] = @ + 1]
    /\ pc' = [pc EXCEPT ![t] = "get"]
    /\ UNCHANGED <<capacity, orch, content, outcome, results, all_books,
                   errorLines, taskErrorLines, aggVars, overtaken, unit>>

\* Task t finishes while a task declared before it has not finished.
Overtakes(t) == \E u \in Tasks : u < t /\ pc[u] \notin Terminal

\* fetch_page logs the failure and lets the exception go: the task raises.
FetchFailsAndRaises(t) ==
    /\ errorLines' = [errorLines EXCEPT ![t] = @ + 1]
    /\ permits' = ReleaseOnFailure(permits)
    /\ content' = [content EXCEPT ![t] = None]
    /\ outcome' = [outcome EXCEPT ![t] = Raised]
    /\ pc' = [pc EXCEPT ![t] = "raised"]
    /\ overtaken' = (overtaken \/ Overtakes(t))
    /\ UNCHANGED <<capacity, orch, results, all_books, fetchLines,
                   taskErrorLines, aggVars, unit>>

\* fetch_page logs the failure and returns None; the semaphore is left; the
\* scraper sees "not html" and returns its empty list
FetchFails(t) ==
    /\ errorLines' = [errorLines EXCEPT ![t] = @ + 1]
    /\ permits' = ReleaseOnFailure(permits)
    /\ content' = [content EXCEPT ![t] = None]
    /\ outcome' = [outcome EXCEPT ![t] = Scrape(TaskKinds[t], None)]
    /\ pc' = [pc EXCEPT ![t] = IF Scrape(TaskKinds[t], None).exc
                                 THEN "raised" ELSE "done"]
    /\ overtaken' = (overtaken \/ Overtakes(t))
    /\ UNCHANGED <<capacity, orch, results, all_books, fetchLines,
                   taskErrorLines, aggVars, unit>>

\* session.get answers with a status
Response(t) ==
    /\ pc[t] = "get"
    /\ \E status \in Statuses :
          IF StatusOk(status)
          THEN /\ pc' = [pc EXCEPT ![t] = "text"]
               /\ UNCHANGED <<capacity, permits, orch, content, outcome,
                              results, all_books, fetchLines, errorLines,
                              taskErrorLines, aggVars, overtaken, unit>>
          ELSE FetchFails(t)

\* session.get raises: a transport error, or the total timeout
RequestRaises(t) ==
    /\ pc[t] = "get"
    /\ FetchFails(t)

\* content = await response.text()
TextRead(t) ==
    /\ pc[t] = "text"
    /\ \E body \in RunBodies(TaskKinds[t]) :
          content' = [content EXCEPT ![t] = body]
    /\ pc' = [pc EXCEPT ![t] = "sleep"]
    /\ UNCHANGED <<capacity, permits, orch, outcome, results, all_books,
                   fetchLines, errorLines, taskErrorLines, aggVars, overtaken, unit>>

\* response.text() raises: the connection drops, the timeout, a decode error
TextRaises(t) ==
    /\ pc[t] = "text"
    /\ FetchFails(t)

\* A scraper that, besides returning its books, extends self.results itself.
SleepDoneAppends(t) ==
    /\ pc[t] = "sleep"
    /\ permits' = ReleaseAfterDelay(permits)
    /\ outcome' = [outcome EXCEPT ![t] = Scrape(TaskKinds[t], content[t])]
    /\ results' = results \o Scrape(TaskKinds[t], content[t]).books
    /\ pc' = [pc EXCEPT ![t] = IF Scrape(TaskKinds[t], content[t]).exc
                                 THEN "raised" ELSE "done"]
    /\ overtaken' = (overtaken \/ Overtakes(t))
    /\ UNCHANGED <<capacity, orch, content, all_books,
                   fetchLines, errorLines, taskErrorLines, aggVars, unit>>

\* await asyncio.sleep(delay) is over: return content leaves the semaphore,
\* and the scraper, which awaits nothing more, parses the content and builds
\* its books (or raises) before any other coroutine runs
SleepDone(t) ==
    /\ pc[t] = "sleep"
    /\ permits' = ReleaseAfterDelay(permits)
    /\ outcome' = [outcome EXCEPT ![t] = Scrape(TaskKinds[t], content[t])]
    /\ pc' = [pc EXCEPT ![t] = IF Scrape(TaskKinds[t], content[t]).exc
                                 THEN "raised" ELSE "done"]
    /\ overtaken' = (overtaken \/ Overtakes(t))
    /\ UNCHANGED <<capacity, orch, content, results, all_books,
                   fetchLines, errorLines, taskErrorLines, aggVars, unit>>

\* run_all_scrapers, from the await on: flatten, self.results = all_books
Return ==
    /\ orch = "gathering"
    /\ GatherDone
    /\ all_books' = Flatten([t \in Tasks |-> outcome[t]])
    /\ results' = Flatten([t \in Tasks |-> outcome[t]])
    /\ taskErrorLines' = Cardinality({t \in Tasks : outcome[t].exc})
    /\ orch' = "returned"
    /\ UNCHANGED <<capacity, permits, pc, content, outcome, fetchLines,
                   errorLines, aggVars, overtaken, unit>>

TaskStep(t) ==
    \/ Acquire(t)
    \/ Response(t)
    \/ RequestRaises(t)
    \/ TextRead(t)
    \/ TextRaises(t)
    \/ SleepDone(t)

Next ==
    \/ Dispatch
    \/ \E t \in Tasks : TaskStep(t)
    \/ Return

Spec == Init /\ [][Next]_vars

\* The event loop runs every ready coroutine, and every network call ends
\* (aiohttp.ClientTimeout(total=30)).
FairSpec == Spec /\ WF_vars(Next)

(***************************************************************************)
(* SpecSteps: the same run, with what a task does when its delay is over   *)
(* taken in the two steps the code writes one after the other: fetch_page  *)
(* returns through the end of the with block, then the scraper extracts.   *)
(* No other coroutine runs between the two.                                *)
(***************************************************************************)
\* The with block stretches over the extraction: the permit is kept.
StayInSemaphore(t) ==
    /\ pc[t] = "sleep"
    /\ pc' = [pc EXCEPT ![t] = "extract"]
    /\ UNCHANGED <<capacity, permits, orch, content, outcome, results,
                   all_books, fetchLines, errorLines, taskErrorLines,
                   aggVars, overtaken, unit>>

\* return content: the with block of fetch_page ends, the permit goes back
LeaveSemaphore(t) ==
    /\ pc[t] = "sleep"
    /\ permits' = ReleaseAfterDelay(permits)
    /\ pc' = [pc EXCEPT ![t] = "extract"]
    /\ UNCHANGED <<capacity, orch, content, outcome, results, all_books,
                   fetchLines, errorLines, taskErrorLines, aggVars, overtaken, unit>>

\* the scraper parses html and builds its books, or raises
ExtractBooks(t) ==
    /\ pc[t] = "extract"
    /\ outcome' = [outcome EXCEPT ![t] = Scrape(TaskKinds[t], content[t])]
    /\ pc' = [pc EXCEPT ![t] = IF Scrape(TaskKinds[t], content[t]).exc
                                 THEN "raised" ELSE "done"]
    /\ overtaken' = (overtaken \/ Overtakes(t))
    /\ UNCHANGED <<capacity, permits, orch, content, results, all_books,
                   fetchLines, errorLines, taskErrorLines, aggVars, unit>>

\* No coroutine stands between the end of its with block and the end of
\* its scraper.  A coroutine that does awaits nothing until its scraper
\* returns, so the event loop runs no other coroutine before that.
LoopFree == \A t \in Tasks : pc[t] # "extract"

TaskSubStep(t) ==
    \/ LoopFree /\ Acquire(t)
    \/ LoopFree /\ Response(t)
    \/ LoopFree /\ RequestRaises(t)
    \/ LoopFree /\ TextRead(t)
    \/ LoopFree /\ TextRaises(t)
    \/ LoopFree /\ LeaveSemaphore(t)
    \/ ExtractBooks(t)

NextSteps ==
    \/ LoopFree /\ Dispatch
    \/ \E t \in Tasks : TaskSubStep(t)
    \/ LoopFree /\ Return

SpecSteps == Init /\ [][NextSteps]_vars

(***************************************************************************)
(* get_price_comparison.  The dict maps a title to a list of references to *)
(* Book objects of self.results; a reference is modelled as the position   *)
(* of the object in self.results.                                          *)
(***************************************************************************)
\* The dict of the previous call is filled again.
StaleComparison == comparison

\* comparison = {}
EmptyComparison == <<>>

\* "if book.price:" -- a price of 0 counts as no price.
HasPriceTruthy(book) == book.price.some /\ book.price.val # 0

\* if book.price is not None
HasPrice(book) == book.price.some

\* comparison[book.title]
GroupKey(book) == book.title

\* The body of the first loop, for the book at position i.
AddBook(cmp, rs, i) ==
    IF ~HasPrice(rs[i]) THEN cmp
    ELSE IF GroupKey(rs[i]) \notin DOMAIN cmp
         THEN cmp @@ (GroupKey(rs[i]) :> <<i>>)
    ELSE [cmp EXCEPT ![GroupKey(rs[i])] = Append(@, i)]

\* for book in self.results: ...   (the first n books)
RECURSIVE Grouped(_, _, _)
Grouped(cmp, rs, n) ==
    IF n = 0 THEN cmp ELSE AddBook(Grouped(cmp, rs, n - 1), rs, n)

\* key=lambda x: x.price or float('inf'): None and 0 are falsy
SortKey(book) ==
    IF book.price.some /\ book.price.val # 0
    THEN [inf |-> FALSE, val |-> book.price.val]
    ELSE [inf |-> TRUE, val |-> 0]

\* k1 <= k2 on floats, float('inf') included
KeyLE(k1, k2) == k2.inf \/ (~k1.inf /\ k1.val <= k2.val)

\* list.sort is stable: an element goes behind every element whose key is
\* not greater than its own
RECURSIVE InsertByKey(_, _, _)
InsertByKey(sorted, i, rs) ==
    IF sorted = <<>> THEN <<i>>
    ELSE IF KeyLE(SortKey(rs[Head(sorted)]), SortKey(rs[i]))
         THEN <<Head(sorted)>> \o InsertByKey(Tail(sorted), i, rs)
    ELSE <<i>> \o sorted

\* comparison[title].sort(key=...)
RECURSIVE SortByKey(_, _)
SortByKey(group, rs) ==
    IF group = <<>> THEN <<>>
    ELSE InsertByKey(SortByKey(SubSeq(group, 1, Len(group) - 1), rs),
                     group[Len(group)], rs)

\* The dict get_price_comparison returns over self.results = rs.
PriceComparison(rs) ==
    LET cmp == Grouped(EmptyComparison, rs, Len(rs))
    IN  [title \in DOMAIN cmp |-> SortByKey(cmp[title], rs)]

\* The positions 1..n of a list.
RECURSIVE Positions(_)
Positions(n) == IF n = 0 THEN <<>> ELSE Append(Positions(n - 1), n)

\* self.results.sort(key=...)
SortedInPlace(rs) ==
    [i \in 1..Len(rs) |-> rs[SortByKey(Positions(Len(rs)), rs)[i]]]

\* get_price_comparison sorts self.results itself before it groups.
GetPriceComparisonInPlace ==
    /\ orch = "returned"
    /\ calls < MaxCalls
    /\ results' = SortedInPlace(results)
    /\ all_books' = SortedInPlace(results)
    /\ comparison' = PriceComparison(SortedInPlace(results))
    /\ prevComparison' = comparison
    /\ calls' = calls + 1
    /\ UNCHANGED <<capacity, permits, orch, pc, content, outcome, fetchLines,
                   errorLines, taskErrorLines, exportVars, overtaken, unit>>

\* comparisons = scraper.get_price_comparison()
GetPriceComparison ==
    /\ orch = "returned"
    /\ calls < MaxCalls
    /\ comparison' = PriceComparison(results)
    /\ prevComparison' = comparison
    /\ calls' = calls + 1
    /\ UNCHANGED <<runVars, exportVars, unit>>

(***************************************************************************)
(* The exports and the summary of main.                                    *)
(***************************************************************************)
\* asdict(book)
AsDict(book) == book

\* [asdict(book) for book in self.results]
RECURSIVE Rows(_)
Rows(rs) == IF rs = <<>> THEN <<>> ELSE <<AsDict(Head(rs))>> \o Rows(Tail(rs))

\* What a save_* call leaves: nothing and a warning when self.results is
\* empty, else the file with one row per book.
Saved(file, rs) ==
    IF rs = <<>> THEN [file EXCEPT !.warned = TRUE]
    ELSE [file EXCEPT !.written = TRUE, !.rows = Rows(rs)]

\* scraper.save_to_csv()
SaveToCsv ==
    /\ orch = "returned"
    /\ csvfile' = Saved(csvfile, results)
    /\ UNCHANGED <<runVars, comparison, prevComparison, calls, jsonfile,
                   sources, unit>>

\* scraper.save_to_json()
SaveToJson ==
    /\ orch = "returned"
    /\ jsonfile' = Saved(jsonfile, results)
    /\ UNCHANGED <<runVars, comparison, prevComparison, calls, csvfile,
                   sources, unit>>

\* sources[book.source] = sources.get(book.source, 0) + 1, for the first n
\* books
RECURSIVE Counted(_, _)
Counted(books, n) ==
    IF n = 0 THEN <<>>
    ELSE LET d == Counted(books, n - 1)
             s == books[n].source
         IN  IF s \in DOMAIN d THEN [d EXCEPT ![s] = @ + 1]
             ELSE d @@ (s :> 1)

\* main: sources = {}; for book in books: ...
CountSources ==
    /\ orch = "returned"
    /\ sources' = Counted(all_books, Len(all_books))
    /\ UNCHANGED <<runVars, comparison, prevComparison, calls, csvfile,
                   jsonfile, unit>>

(***************************************************************************)
(* SpecAgg: get_price_comparison over the collection a run returned.  The  *)
(* run is one in which the first task of each kind fetched a document of   *)
(* well-formed items and the fetch of every other task failed.             *)
(***************************************************************************)
AggItems(kind) ==
    CASE kind = "catalog" ->
           { Item(t, "ok", p) : t \in {"Dune", "dune"},
                                p \in {<<"GBP", "1">>, <<"GBP", "2">>} }
      [] kind = "search" -> { Item("Dune", "ok", NoPriceElem) }
      [] kind = "ranked" ->
           { Item(t, "ok", NoPriceElem) : t \in {"Dune", "Emma"} }

AggDocs(kind) == { Document("ok", s) : s \in SeqUpTo(AggItems(kind), MaxItems) }

FirstOfKind == { t \in Tasks : \A u \in Tasks : TaskKinds[u] = TaskKinds[t] => u >= t }

InitAgg ==
    /\ capacity \in 1..MaxPermits
    /\ permits = SemaphoreValue(capacity)
    /\ orch = "returned"
    /\ pc = [t \in Tasks |-> "done"]
    /\ \E c \in AggDocs("catalog"), s \in AggDocs("search"), r \in AggDocs("ranked") :
          content = [t \in Tasks |->
                       IF t \notin FirstOfKind THEN None
                       ELSE CASE TaskKinds[t] = "catalog" -> c
                              [] TaskKinds[t] = "search" -> s
                              [] TaskKinds[t] = "ranked" -> r]
    /\ outcome = [t \in Tasks |-> Scrape(TaskKinds[t], content[t])]
    /\ results = Flatten(outcome)
    /\ all_books = Flatten(outcome)
    /\ fetchLines = [t \in Tasks |-> 1]
    /\ errorLines = [t \in Tasks |-> IF content[t] = None THEN 1 ELSE 0]
    /\ taskErrorLines = 0
    /\ overtaken = FALSE
    /\ comparison = <<>>
    /\ prevComparison = <<>>
    /\ calls = 0
    /\ csvfile = NoFile
    /\ jsonfile = NoFile
    /\ sources = <<>>
    /\ unit = [spec |-> "agg"]

NextAgg ==
    \/ GetPriceComparison
    \/ SaveToCsv
    \/ SaveToJson
    \/ CountSources

SpecAgg == InitAgg /\ [][NextAgg]_vars

(***************************************************************************)
(* SpecExtract: one extractor applied to one fetched content.              *)
(***************************************************************************)
Kinds == {"catalog", "search", "ranked"}

Items(kind) ==
    CASE kind = "catalog" ->
           { Item(t, e, p) : t \in Titles, e \in {"ok", "broken"},
                             p \in PriceTexts \cup {NoPriceElem} }
             \cup { Article("Emma", "ok", <<"GBP", "1">>, s) : s \in StarClasses }
      [] kind = "search" ->
           { Doc(t, e, r) : t \in Titles, e \in {"ok", "broken"},
                            r \in {NoRating, Rating(4)} }
      [] kind = "ranked" ->
           { Item(t, e, NoPriceElem) : t \in Titles,
                                       e \in {"ok", "broken", "nolink"} }

Contents(kind) ==
    { Document("ok", s) : s \in SeqUpTo(Items(kind), MaxItems) }
        \cup { Document("unparseable", <<>>), Document("empty", <<>>), None }

\* The scraper as constructed; no run has started.
Constructed ==
    /\ capacity \in 1..MaxPermits
    /\ permits = SemaphoreValue(capacity)
    /\ orch = "idle"
    /\ pc = [t \in Tasks |-> "created"]
    /\ content = [t \in Tasks |-> None]
    /\ outcome = [t \in Tasks |-> Returned(<<>>)]
    /\ results = <<>>
    /\ all_books = <<>>
    /\ fetchLines = [t \in Tasks |-> 0]
    /\ errorLines = [t \in Tasks |-> 0]
    /\ taskErrorLines = 0
    /\ overtaken = FALSE
    /\ comparison = <<>>
    /\ prevComparison = <<>>
    /\ calls = 0
    /\ csvfile = NoFile
    /\ jsonfile = NoFile
    /\ sources = <<>>

InitExtract ==
    /\ Constructed
    /\ \E k \in Kinds : \E h \in Contents(k) :
          unit = [spec |-> "extract", kind |-> k, html |-> h,
                  done |-> FALSE, out |-> Returned(<<>>)]

\* the scraper of unit.kind runs on unit.html, from "if not html" on
ExtractCall ==
    /\ unit.spec = "extract"
    /\ ~unit.done
    /\ unit' = [unit EXCEPT !.done = TRUE, !.out = Scrape(unit.kind, unit.html)]
    /\ UNCHANGED <<runVars, aggVars>>

NextExtract == ExtractCall

SpecExtract == InitExtract /\ [][NextExtract]_vars

(***************************************************************************)
(* SpecFetch: one fetch_page call against one behaviour of the transport.  *)
(***************************************************************************)
\* What session.get and response.text() do for the call: a response with a
\* status whose body can be read or not, a transport error, or the timeout.
NetOutcomes ==
    { [kind |-> "response", status |-> st, readable |-> rd, body |-> b] :
        st \in Statuses, rd \in BOOLEAN,
        b \in Contents("search") \ {None} }
    \cup { [kind |-> k, status |-> 0, readable |-> FALSE, body |-> None] :
             k \in {"error", "timeout"} }

\* The value fetch_page returns.
FetchPage(net) ==
    IF net.kind = "response" /\ StatusOk(net.status) /\ net.readable
    THEN net.body
    ELSE None

\* The call is the one of the first task; unit.at is the await it stands
\* at, unit.delays the number of asyncio.sleep(delay) it went through.
Caller == 1

InitFetch ==
    /\ Constructed
    /\ \E n \in NetOutcomes :
          unit = [spec |-> "fetch", net |-> n, at |-> "semaphore",
                  done |-> FALSE, ret |-> None, delays |-> 0]

\* async with self.semaphore: ... logger.info("Fetching") ... session.get
FetchEnter ==
    /\ unit.spec = "fetch"
    /\ unit.at = "semaphore"
    /\ CanAcquire(permits)
    /\ permits' = permits - 1
    /\ fetchLines' = [fetchLines EXCEPT ![Caller] = @ + 1]
    /\ unit' = [unit EXCEPT !.at = "get"]
    /\ UNCHANGED <<capacity, orch, pc, content, outcome, results, all_books,
                   errorLines, taskErrorLines, overtaken, aggVars>>

\* logger.error(...); return None  -- and the with block is left
FetchReturnsNone ==
    /\ errorLines' = [errorLines EXCEPT ![Caller] = @ + 1]
    /\ permits' = ReleaseOnFailure(permits)
    /\ unit' = [unit EXCEPT !.at = "returned", !.done = TRUE,
                            !.ret = FetchPage(unit.net)]
    /\ UNCHANGED <<capacity, orch, pc, content, outcome, results, all_books,
                   fetchLines, taskErrorLines, overtaken, aggVars>>

\* session.get is over: a response with status 200 is read, any other
\* response, a transport error and the timeout end the call
FetchGot ==
    /\ unit.spec = "fetch"
    /\ unit.at = "get"
    /\ IF unit.net.kind = "response" /\ StatusOk(unit.net.status)
       THEN /\ unit' = [unit EXCEPT !.at = "text"]
            /\ UNCHANGED <<runVars, aggVars>>
       ELSE FetchReturnsNone

\* content = await response.text() is over: the body is in hand, or the
\* read raised
FetchRead ==
    /\ unit.spec = "fetch"
    /\ unit.at = "text"
    /\ IF unit.net.readable
       THEN /\ unit' = [unit EXCEPT !.at = "sleep"]
            /\ UNCHANGED <<runVars, aggVars>>
       ELSE FetchReturnsNone

\* await asyncio.sleep(delay) is over: return content
FetchSlept ==
    /\ unit.spec = "fetch"
    /\ unit.at = "sleep"
    /\ permits' = ReleaseAfterDelay(permits)
    /\ unit' = [unit EXCEPT !.at = "returned", !.done = TRUE,
                            !.ret = FetchPage(unit.net),
                            !.delays = @ + 1]
    /\ UNCHANGED <<capacity, orch, pc, content, outcome, results, all_books,
                   fetchLines, errorLines, taskErrorLines, overtaken, aggVars>>

NextFetch ==
    \/ FetchEnter
    \/ FetchGot
    \/ FetchRead
    \/ FetchSlept

SpecFetch == InitFetch /\ [][NextFetch]_vars

(***************************************************************************)
(* Properties of the harvest run (Spec, FairSpec).                         *)
(***************************************************************************)
Holders == { t \in Tasks : pc[t] \in Holding }

Waiting == { t \in Tasks : pc[t] = "start" }

\* The fetch of task t failed: fetch_page logged the failure.
FetchFailed(t) == errorLines[t] > 0

\* f[1] \o ... \o f[n]
RECURSIVE ConcatUpTo(_, _)
ConcatUpTo(f, n) == IF n = 0 THEN <<>> ELSE ConcatUpTo(f, n - 1) \o f[n]

\* The books task t builds from the content it fetched, by itself.
OwnBooks(t) ==
    IF Scrape(TaskKinds[t], content[t]).exc THEN <<>>
    ELSE Scrape(TaskKinds[t], content[t]).books

\* C1: at most `capacity` fetch_page calls hold a permit (are inside the
\* network call or the post-fetch delay) in any reachable state of a run.
C1_PermitBound == Cardinality(Holders) <= capacity

\* C1: two permits, both held, while four more tasks wait for one.
C1_Witness ==
    /\ capacity = 2
    /\ Cardinality(Holders) = 2
    /\ Cardinality(Waiting) >= 3
    /\ \E t \in Holders : pc[t] = "sleep"

\* C2: when a task raised, run_all_scrapers still returns, the task
\* contributes no record, and every sibling reached its own terminal state
\* with its own result, all of whose records are in the returned list.
C2_FailureIsolated ==
    /\ (orch = "gathering" /\ \A t \in Tasks : pc[t] \in Terminal)
          => ENABLED Return
    /\ (orch = "returned" /\ \E t \in Tasks : pc[t] = "raised") =>
          /\ \A t \in Tasks :
                /\ pc[t] \in Terminal
                /\ outcome[t] = Scrape(TaskKinds[t], content[t])
          /\ all_books =
                ConcatUpTo([t \in Tasks |-> IF pc[t] = "raised" THEN <<>>
                                            ELSE OwnBooks(t)], Len(TaskKinds))

\* C2: a run returned in which a task raised, and tasks declared before and
\* after it delivered books.
C2_Witness ==
    /\ orch = "returned"
    /\ \E t, u, v \in Tasks :
          /\ u < t /\ t < v
          /\ pc[t] = "raised"
          /\ pc[u] = "done" /\ outcome[u].books # <<>>
          /\ pc[v] = "done" /\ outcome[v].books # <<>>
    /\ all_books # <<>>

\* C3: run_all_scrapers has not returned, and has built no collection,
\* while a dispatched task is short of a terminal state.
C3_WaitsForAll ==
    (orch = "returned" \/ all_books # <<>> \/ results # <<>>)
        => \A t \in Tasks : pc[t] \in Terminal

\* C3: a run returned whose tasks ended in all three terminal states.
C3_Witness ==
    /\ orch = "returned"
    /\ \E t \in Tasks : pc[t] = "raised"
    /\ \E t \in Tasks : pc[t] = "done" /\ outcome[t].books # <<>>
    /\ \E t \in Tasks : pc[t] = "done" /\ FetchFailed(t)

\* C4: a failed fetch never raises: the task ends with an empty list; and
\* the returned list is the books of the tasks whose fetch succeeded, each
\* as the task builds them from its own content.
C4_FetchFailureDegrades ==
    /\ \A t \in Tasks :
          FetchFailed(t) =>
             /\ pc[t] = "done"
             /\ content[t] = None
             /\ outcome[t] = Returned(<<>>)
    /\ orch = "returned" =>
          all_books =
             ConcatUpTo([t \in Tasks |-> IF FetchFailed(t) THEN <<>>
                                         ELSE OwnBooks(t)], Len(TaskKinds))

\* C4: exactly one fetch failed, and the run returned the books of tasks
\* declared before and after the failing one.
C4_Witness ==
    /\ orch = "returned"
    /\ Cardinality({ t \in Tasks : FetchFailed(t) }) = 1
    /\ \E t, u, v \in Tasks :
          /\ u < t /\ t < v
          /\ FetchFailed(t)
          /\ outcome[u].books # <<>>
          /\ outcome[v].books # <<>>

\* C5: under fair scheduling run_all_scrapers returns, with every task in a
\* terminal state after it got its permit and made its fetch attempt (so no
\* task waits for a permit forever).
C5_RunTerminates ==
    <>(orch = "returned" /\ \A t \in Tasks : pc[t] \in Terminal /\ fetchLines[t] = 1)

\* C5: with one permit, a run returned in which a fetch failed (a timeout,
\* say) while other tasks were still to fetch, and a later task got books.
C5_Witness ==
    /\ capacity = 1
    /\ orch = "returned"
    /\ \E t, u \in Tasks :
          /\ FetchFailed(t)
          /\ ~FetchFailed(u) /\ outcome[u].books # <<>>

\* C12: every fetch_page call gives its permit back exactly once on every
\* way out: the permits out are those of the calls in progress, so with no
\* call in progress, and when run_all_scrapers has returned, all `capacity`
\* permits are available.
C12_PermitReleasedOnce ==
    /\ permits + Cardinality(Holders) = capacity
    /\ Holders = {} => permits = capacity
    /\ orch = "returned" => permits = capacity

\* C12: a run returned with every permit back, after fetches that left by
\* the success path and fetches that left by a failure path.
C12_Witness ==
    /\ orch = "returned"
    /\ permits = capacity
    /\ \E t \in Tasks : content[t] = None /\ errorLines[t] = 1
    /\ \E t \in Tasks : content[t] # None /\ pc[t] = "done"
    /\ \E t \in Tasks : content[t] # None /\ pc[t] = "raised"

\* C14: a task that is extracting holds no permit -- the permits out are
\* those of the tasks inside the network call or the delay -- and it
\* extracts the content of the one fetch it made: no extraction and no
\* second fetch happens between an acquisition and its release.
C14_NoPermitWhileExtracting ==
    /\ capacity - permits = Cardinality(Holders)
    /\ \A t \in Tasks :
          /\ fetchLines[t] <= 1
          /\ pc[t] \in Holding => fetchLines[t] = 1
          /\ pc[t] = "extract" => (fetchLines[t] = 1 /\ ~NoContent(content[t]))

\* C14: with one permit, a task is extracting what it fetched, the permit
\* is back in the semaphore and another task waits for it.
C14_Witness ==
    /\ capacity = 1
    /\ permits = 1
    /\ \E t, u \in Tasks :
          /\ pc[t] = "extract"
          /\ ~NoContent(content[t])
          /\ pc[u] = "start"

\* C15: self.results keeps the empty list of the constructor until the
\* orchestrator returns; the one step that changes it is the orchestrator's,
\* taken when every task is terminal, and it assigns the flattened
\* collection that run_all_scrapers returns.
C15_ResultsAssignedAfterFanIn ==
    [][ /\ orch # "returned" => results = <<>>
        /\ results' # results =>
              /\ \A t \in Tasks : pc[t] \in Terminal
              /\ orch = "gathering"
              /\ orch' = "returned"
              /\ results' = all_books'
        /\ orch = "returned" => results' = results ]_vars

\* C15: the run is over, some tasks brought books and one raised, and
\* self.results is the returned collection.
C15_Witness ==
    /\ orch = "returned"
    /\ results # <<>>
    /\ results = all_books
    /\ \E t \in Tasks : pc[t] = "raised"
    /\ \E t \in Tasks : pc[t] = "done" /\ outcome[t].books # <<>>

\* The list task t returned, empty when it raised.
ReturnedList(t) == IF pc[t] = "raised" THEN <<>> ELSE outcome[t].books

\* The number of records the tasks declared before task t returned.
RECURSIVE Offset(_)
Offset(t) == IF t = 1 THEN 0 ELSE Offset(t - 1) + Len(ReturnedList(t - 1))

\* C16: in the returned collection the records of each task stand in one
\* block, in the order in which the task returned them, and the blocks
\* together are the whole collection: no record is lost or duplicated.
C16_TaskOrderPreserved ==
    orch = "returned" =>
        /\ Len(all_books) = Offset(Len(TaskKinds) + 1)
        /\ \A t \in Tasks :
              \A i \in 1..Len(ReturnedList(t)) :
                  all_books[Offset(t) + i] = ReturnedList(t)[i]

\* C16: a task returned two different records, tasks declared before and
\* after it returned records too, and the run returned.
C16_Witness ==
    /\ orch = "returned"
    /\ \E t, u, v \in Tasks :
          /\ u < t /\ t < v
          /\ Len(ReturnedList(t)) = 2
          /\ ReturnedList(t)[1] # ReturnedList(t)[2]
          /\ ReturnedList(u) # <<>>
          /\ ReturnedList(v) # <<>>

(***************************************************************************)
(* Properties of the extractors (SpecExtract).                             *)
(***************************************************************************)
\* Processing the item raises inside the extractor of that kind.
ItemRaises(kind, item) ==
    CASE kind = "catalog" -> CatalogItemRaises(item)
      [] kind = "search" -> SearchItemRaises(item)
      [] kind = "ranked" -> RankedItemRaises(item)

\* The book the item yields when processing it raises nothing.
BookOf(kind, item) ==
    CASE kind = "catalog" -> CatalogBook(item)
      [] kind = "search" -> SearchBook(item)
      [] kind = "ranked" -> RankedBook(item)

\* The item parses without error and holds a book.
Yields(kind, item) ==
    ~ItemRaises(kind, item) /\ ~(kind = "ranked" /\ item.elem = "nolink")

\* The books of the items that yield one, in document order.
RECURSIVE BooksOfGoodItems(_, _)
BooksOfGoodItems(kind, items) ==
    IF items = <<>> THEN <<>>
    ELSE (IF Yields(kind, Head(items)) THEN <<BookOf(kind, Head(items))>>
          ELSE <<>>) \o BooksOfGoodItems(kind, Tail(items))

\* C6: in each extractor an item whose processing raises is the only item
\* missing from the result: every other item of the batch that parses
\* without error, before or after it, yields its record.
C6_OnlyFailingItemDropped ==
    (unit.done /\ unit.html.doc = "ok") =>
        /\ ~unit.out.exc
        /\ unit.out.books = BooksOfGoodItems(unit.kind, unit.html.items)

\* C11: every record an extractor emits has a price that is absent or not
\* negative, whatever the payload.
C11_PriceNonNegative ==
    unit.done =>
        \A i \in 1..Len(unit.out.books) :
            unit.out.books[i].price.some => unit.out.books[i].price.val >= 0

(***************************************************************************)
(* Properties of get_price_comparison (SpecAgg).                           *)
(***************************************************************************)
\* The positions the groups hold, with repetitions counted.
Occurrences(cmp, i) ==
    Cardinality({ <<k, j>> \in UNION { {k} \X DOMAIN cmp[k] : k \in DOMAIN cmp } :
                    cmp[k][j] = i })

\* C7: every group is sorted ascending by price.
C7_GroupsAscending ==
    calls > 0 =>
        \A k \in DOMAIN comparison :
            \A j \in 1..(Len(comparison[k]) - 1) :
                results[comparison[k][j]].price.val
                    <= results[comparison[k][j + 1]].price.val

\* C8: the groups partition the records that have a price: each such
\* record is in exactly one group, the one keyed by its exact title; no
\* record without a price is in a group; no group is empty.
C8_GroupsPartitionPriced ==
    calls > 0 =>
        /\ \A i \in 1..Len(results) :
              IF results[i].price.some
              THEN /\ results[i].title \in DOMAIN comparison
                   /\ Occurrences(comparison, i) = 1
                   /\ \E j \in DOMAIN comparison[results[i].title] :
                         comparison[results[i].title][j] = i
              ELSE Occurrences(comparison, i) = 0
        /\ \A k \in DOMAIN comparison :
              /\ comparison[k] # <<>>
              /\ \A j \in DOMAIN comparison[k] :
                    /\ comparison[k][j] \in 1..Len(results)
                    /\ results[comparison[k][j]].title = k

\* C8: groups for two titles that differ only in case, one of them with
\* books of two sources (a free one among them), beside a record without price.
C8_Witness ==
    /\ calls > 0
    /\ {"Dune", "dune"} \subseteq DOMAIN comparison
    /\ \E j, l \in DOMAIN comparison["Dune"] :
          /\ results[comparison["Dune"][j]].source = SourceOf("catalog")
          /\ results[comparison["Dune"][l]].source = SourceOf("ranked")
    /\ \E i \in 1..Len(results) : ~results[i].price.some

\* C9: a second call in a row returns the same keys and, per key, the same
\* records in the same order.
C9_SecondCallSame == calls >= 2 => comparison = prevComparison

\* C9: two calls were made over a collection in which two records of one
\* title have the same price.
C9_Witness ==
    /\ calls >= 2
    /\ \E k \in DOMAIN comparison :
          \E j \in 1..(Len(comparison[k]) - 1) :
              results[comparison[k][j]].price = results[comparison[k][j + 1]].price

(***************************************************************************)
(* Properties of fetch_page (SpecFetch).                                   *)
(***************************************************************************)
\* C10: a response with any 2xx status whose body is read yields that body;
\* only other statuses, transport errors and timeouts yield no content.
C10_SuccessRangeYieldsBody ==
    unit.done =>
        IF /\ unit.net.kind = "response"
           /\ unit.net.status \in 200..299
           /\ unit.net.readable
        THEN unit.ret = unit.net.body
        ELSE unit.ret = None

\* C13: a fetch whose network call completes, whatever its outcome, goes
\* through the post-fetch delay once before it gives its permit back.
C13_DelayPerCompletedFetch ==
    (unit.done /\ unit.net.kind = "response") => unit.delays = 1

\* The star-rating label of a catalogue item that has one.
HasLabel(item) == Len(item.stars) >= 2

\* The catalogue item parses apart from its rating.
RatingOnly(item) ==
    item.elem = "ok" /\ FloatOk(StripCurrency(PriceTextOf(item)))

\* C17: on a catalogue page whose items are well formed and carry a
\* star-rating label, every item yields its record, none is dropped, and
\* the record's rating is the ordinal of a recognized label (One..Five) and
\* absent for any other label.
C17_UnrecognizedLabelAbsent ==
    ( /\ unit.done
      /\ unit.kind = "catalog"
      /\ unit.html.doc = "ok"
      /\ \A i \in 1..Len(unit.html.items) :
            RatingOnly(unit.html.items[i]) /\ HasLabel(unit.html.items[i]) ) =>
        /\ ~unit.out.exc
        /\ Len(unit.out.books) = Len(unit.html.items)
        /\ \A i \in 1..Len(unit.html.items) :
              unit.out.books[i].rating =
                  IF unit.html.items[i].stars[2] \in DOMAIN rating_map
                  THEN Rating(rating_map[unit.html.items[i].stars[2]])
                  ELSE NoRating

\* C18: once run_all_scrapers has returned, no call of
\* get_price_comparison, save_to_csv or save_to_json and no per-source count
\* changes self.results: it holds the records of the run, in their order.
C18_ResultsReadOnly ==
    [][orch = "returned" => (results' = results /\ all_books' = results)]_vars

\* C18: every operation has run over a collection in which some group of
\* the comparison is in another order than its books are in self.results,
\* and self.results is still what the run returned.
C18_Witness ==
    /\ calls >= 2
    /\ csvfile.written
    /\ jsonfile.written
    /\ sources # <<>>
    /\ \E title \in DOMAIN comparison :
          /\ Len(comparison[title]) = 2
          /\ comparison[title][1] > comparison[title][2]
    /\ results = Flatten(outcome)

\* f[1] + ... + f[n]
RECURSIVE SumUpTo(_, _)
SumUpTo(f, n) == IF n = 0 THEN 0 ELSE SumUpTo(f, n - 1) + f[n]

\* The fetch of task t is over and failed: fetch_page returned None.
FetchOverFailed(t) == pc[t] \in Terminal /\ content[t] = None

\* Every logger.error line of the run: those of fetch_page, those of the
\* scrapers and those of run_all_scrapers.
FailureLines ==
    SumUpTo(errorLines, Len(TaskKinds)) + taskErrorLines
        + SumUpTo([t \in Tasks |-> IF pc[t] \in Terminal
                                    THEN ParseErrorLines(TaskKinds[t], content[t])
                                    ELSE 0], Len(TaskKinds))

\* Apart from failed fetches nothing goes wrong: every fetched document
\* parses and each of its items does.
NothingElseWrong ==
    \A t \in Tasks :
        /\ content[t] # None => ~Scrape(TaskKinds[t], content[t]).exc
        /\ ParseErrorLines(TaskKinds[t], content[t]) = 0

\* C19: a task has logged one attempt line from the moment it is inside
\* fetch_page and none before; it has logged one failure line exactly when
\* its fetch is over and failed, and none otherwise; and a returned run in
\* which exactly one fetch failed and nothing else went wrong has logged
\* one failure line in all.
C19_OneLinePerAttemptAndFailure ==
    /\ \A t \in Tasks :
          /\ fetchLines[t] = IF pc[t] \in {"created", "start"} THEN 0 ELSE 1
          /\ errorLines[t] = IF FetchOverFailed(t) THEN 1 ELSE 0
    /\ ( /\ orch = "returned"
         /\ Cardinality({ t \in Tasks : FetchOverFailed(t) }) = 1
         /\ NothingElseWrong ) => FailureLines = 1

\* C19: a run returned in which one fetch failed, nothing else went wrong
\* and tasks declared before and after the failing one delivered books.
C19_Witness ==
    /\ orch = "returned"
    /\ Cardinality({ t \in Tasks : FetchOverFailed(t) }) = 1
    /\ NothingElseWrong
    /\ FailureLines = 1
    /\ \E t, u, v \in Tasks :
          /\ u < t /\ t < v
          /\ FetchOverFailed(t)
          /\ outcome[u].books # <<>>
          /\ outcome[v].books # <<>>

\* C20: the collection run_all_scrapers returns is the lists the tasks
\* build from their own contents, joined in the order of the task list; it
\* is a function of the contents alone, so runs that differ only in the order
\* in which the tasks got their permits and finished return the same
\* sequence.
C20_DeclarationOrder ==
    orch = "returned" =>
        /\ all_books = ConcatUpTo([t \in Tasks |-> OwnBooks(t)], Len(TaskKinds))
        /\ results = all_books

\* C20: a run returned in which a task finished before a task declared
\* ahead of it, and the first and the last task of the list, of different
\* kinds, both delivered books.
C20_Witness ==
    /\ orch = "returned"
    /\ overtaken
    /\ OwnBooks(1) # <<>>
    /\ OwnBooks(Len(TaskKinds)) # <<>>
    /\ OwnBooks(1) # OwnBooks(Len(TaskKinds))
    /\ \E t \in Tasks : FetchOverFailed(t)

====
